---- MODULE Spec2Model ----
(***************************************************************************)
(* Model of drem's address-resolution pipelines:                           *)
(*   src/src/drem/transform/m_and_r.py   (flow "Merge MPRN and GPRN")       *)
(*   src/src/drem/utilities/gni.py       (flow "Plot Gas")                  *)
(*                                                                         *)
(* A pandas DataFrame is an object on a heap: tasks that assign            *)
(* df[column] = ... and return df change the object they were given and    *)
(* hand the same object on; tasks built on rename / loc / merge / concat / *)
(* drop / drop_duplicates / reset_index return a new object.               *)
(***************************************************************************)
EXTENDS Integers, Sequences, FiniteSets, TLC

VARIABLES
    heap,    \* object id -> DataFrame value currently held by that object
    ref,     \* task -> id of the object the task returned ("None" before)
    state,   \* task -> "Pending" | "Success" | "Failed" | "TriggerFailed"
    error,   \* task -> kind of the exception the task raised ("None" if none)
    files,   \* path -> [exists, df]: the storage the flow reads and writes
    writes,  \* number of to_parquet calls made so far
    call     \* the task call under study: function, arguments, table before

vars == <<heap, ref, state, error, files, writes, call>>

-----------------------------------------------------------------------------
(* Cells.  Every cell is a record of one shape so that any two cells can   *)
(* be compared: k is the kind of Python value held.                        *)

Str(s) == [k |-> "str", s |-> s, n |-> 0, l |-> <<>>]
Num(n) == [k |-> "num", s |-> "", n |-> n, l |-> <<>>]
NaN == [k |-> "nan", s |-> "", n |-> 0, l |-> <<>>]
\* a Python list of (fragment, label) tuples, as parse_address returns
PairList(l) == [k |-> "list", s |-> "", n |-> 0, l |-> l]
\* a Python dict, in insertion order, as a sequence of <<label, fragment>>
Dict(l) == [k |-> "dict", s |-> "", n |-> 0, l |-> l]

-----------------------------------------------------------------------------
(* DataFrames: index labels, ordered column names, one row function per    *)
(* position.                                                               *)

DataFrame(index, columns, data) ==
    [index |-> index, columns |-> columns, data |-> data]

Range(s) == {s[i] : i \in DOMAIN s}

len(df) == Len(df.index)

RangeIndex(n) == [i \in 1..n |-> i - 1]

NoFrame == DataFrame(<<>>, <<>>, <<>>)

RECURSIVE SeqWithout(_, _)
SeqWithout(s, drop) ==
    IF s = <<>> THEN <<>>
    ELSE IF Head(s) \in drop THEN SeqWithout(Tail(s), drop)
    ELSE <<Head(s)>> \o SeqWithout(Tail(s), drop)

\* the positions of s, in order, whose element satisfies keep
RECURSIVE Positions(_, _, _)
Positions(n, from, keep) ==
    IF from > n THEN <<>>
    ELSE IF from \in keep THEN <<from>> \o Positions(n, from + 1, keep)
    ELSE Positions(n, from + 1, keep)

\* df.iloc[positions]
take(df, positions) ==
    DataFrame([i \in DOMAIN positions |-> df.index[positions[i]]],
              df.columns,
              [i \in DOMAIN positions |-> df.data[positions[i]]])

\* df[column] = values, values given by position: an existing column is
\* overwritten where it stands, a new one is appended
setitem(df, column, values) ==
    DataFrame(df.index,
              IF column \in Range(df.columns) THEN df.columns
              ELSE Append(df.columns, column),
              [i \in DOMAIN df.data |->
                  [c \in Range(df.columns) \cup {column} |->
                      IF c = column THEN values[i] ELSE df.data[i][c]]])

\* what a task call does: the exception it raised, the value its argument
\* object holds afterwards, the value it returned, and whether the
\* returned object is the argument object itself
Raise(df, exc) == [raised |-> exc, df |-> df, ret |-> NoFrame, same |-> FALSE]
ReturnSelf(df) == [raised |-> "None", df |-> df, ret |-> df, same |-> TRUE]
ReturnNew(df, new) == [raised |-> "None", df |-> df, ret |-> new, same |-> FALSE]

-----------------------------------------------------------------------------
(* External capabilities, by their interface: libpostal's expand_address   *)
(* and parse_address, string_grouper's group_similar_strings, and the      *)
(* ordering of strings that groupby sorts by.  Each is a table over the    *)
(* strings the inputs below are built from.                                *)

\* postal.expand.expand_address(text) -> list of candidate expansions
expand_address(text) ==
    CASE text = "Peamount Hospital, Dublin" -> <<"peamount hospital dublin">>
      [] text = "Peamont Hospital, Dublin" -> <<"peamont hospital dublin">>
      [] text = "Leinster House, Dublin" ->
            <<"leinster house dublin", "leinster house dublin ireland">>
      [] text = "1 Main St, Dublin" ->
            <<"1 main street dublin", "1 main saint dublin">>
      [] OTHER -> <<text>>

\* postal.parser.parse_address(text) -> list of (fragment, label) tuples;
\* a label may occur twice
parse_address(text) ==
    CASE text = "peamount hospital dublin" ->
            <<<<"peamount hospital", "house">>, <<"dublin", "city">>>>
      [] text = "peamont hospital dublin" ->
            <<<<"peamont", "house">>, <<"hospital", "house">>,
              <<"dublin", "city">>>>
      [] text = "leinster house dublin" ->
            <<<<"leinster house", "house">>, <<"dublin", "city">>>>
      [] text = "1 main street dublin" ->
            <<<<"1", "house_number">>, <<"main street", "road">>,
              <<"dublin", "city">>>>
      [] OTHER -> <<>>

\* the strings string_grouper scores at or above min_similarity = 0.95
Similar(a, b) ==
    \/ a = b
    \/ {a, b} = {"peamount hospital dublin", "peamont hospital dublin"}

\* string_grouper.group_similar_strings(strings): same length and order as
\* the input, each string replaced by the first spelling of its group
group_similar_strings(strings) ==
    [i \in DOMAIN strings |->
        strings[CHOOSE j \in DOMAIN strings :
                    /\ Similar(strings[j], strings[i])
                    /\ \A h \in 1..(j - 1) : ~Similar(strings[h], strings[i])]]

\* the strings of the model in Python's sort order
StringOrder ==
    <<"1 Main St, Dublin", "1 main street dublin",
      "Dublin  1", "Dublin 1", "Dublin 2",
      "Leinster House", "Leinster House, Dublin",
      "Peamont Hospital", "Peamont Hospital, Dublin",
      "Peamount Hospital", "Peamount Hospital, Dublin",
      "leinster house dublin",
      "peamont hospital dublin", "peamount hospital dublin">>

Rank(s) ==
    IF s \in Range(StringOrder)
    THEN CHOOSE i \in DOMAIN StringOrder : StringOrder[i] = s
    ELSE 0

\* str.replace(r"\s+", " "): runs of whitespace collapse to one space
collapse_whitespace(s) ==
    CASE s = "Dublin  1" -> "Dublin 1"
      [] OTHER -> s

\* Series.astype(str) on one cell
astype_str(cell) ==
    CASE cell.k = "str" -> cell.s
      [] cell.k = "num" -> ToString(cell.n)
      [] cell.k = "nan" -> "nan"
      [] cell.k = "list" -> "[...]"
      [] OTHER -> "{...}"

\* sep.join(strings)
RECURSIVE join(_, _)
join(sep, strings) ==
    IF strings = <<>> THEN ""
    ELSE IF Len(strings) = 1 THEN strings[1]
    ELSE strings[1] \o sep \o join(sep, Tail(strings))

\* {pair[1]: pair[0] for pair in cell}: a label keeps the place of its
\* first occurrence and the fragment of its last
RECURSIVE dict_of_pairs(_, _)
dict_of_pairs(pairs, acc) ==
    IF pairs = <<>> THEN acc
    ELSE LET fragment == Head(pairs)[1]
             label == Head(pairs)[2]
         IN IF \E i \in DOMAIN acc : acc[i][1] = label
            THEN dict_of_pairs(Tail(pairs),
                     [i \in DOMAIN acc |->
                         IF acc[i][1] = label THEN <<label, fragment>>
                         ELSE acc[i]])
            ELSE dict_of_pairs(Tail(pairs), Append(acc, <<label, fragment>>))

\* dict.get(label): the fragment as a cell, NaN when the label is absent
dict_get(d, label) ==
    IF \E i \in DOMAIN d : d[i][1] = label
    THEN Str(d[CHOOSE i \in DOMAIN d : d[i][1] = label][2])
    ELSE NaN

-----------------------------------------------------------------------------
(* The tasks of m_and_r.py.  An icontract @require that fails raises        *)
(* ViolationError before the body runs.                                     *)

has_columns(df, names) == Range(names) \subseteq Range(df.columns)

column(df, name) == [i \in DOMAIN df.data |-> df.data[i][name]]

\* df[column_names].agg(", ".join, axis="columns"); df[to_column] = ...
_aggregate_columns(df, column_names, to_column) ==
    IF ~has_columns(df, column_names) THEN Raise(df, "ViolationError")
    ELSE IF \E i \in DOMAIN df.data :
                \E c \in Range(column_names) : df.data[i][c].k # "str"
    THEN Raise(df, "TypeError")
    ELSE ReturnSelf(setitem(df, to_column,
            [i \in DOMAIN df.data |->
                Str(join(", ", [j \in DOMAIN column_names |->
                                    df.data[i][column_names[j]].s]))]))

\* addresses[to_column] = addresses[on_column].apply(expand_address(cell)[0])
_standardise_addresses(addresses, on_column, to_column) ==
    IF on_column \notin Range(addresses.columns)
    THEN Raise(addresses, "ViolationError")
    ELSE IF \E i \in DOMAIN addresses.data :
                addresses.data[i][on_column].k # "str"
    THEN Raise(addresses, "TypeError")
    ELSE IF \E i \in DOMAIN addresses.data :
                expand_address(addresses.data[i][on_column].s) = <<>>
    THEN Raise(addresses, "IndexError")
    ELSE ReturnSelf(setitem(addresses, to_column,
            [i \in DOMAIN addresses.data |->
                Str(expand_address(addresses.data[i][on_column].s)[1])]))

\* mapping: a dict as a sequence of <<old name, new name>>
renamed(mapping, name) ==
    IF \E i \in DOMAIN mapping : mapping[i][1] = name
    THEN mapping[CHOOSE i \in DOMAIN mapping : mapping[i][1] = name][2]
    ELSE name

\* df.rename(columns=mapping)
_rename_columns(df, mapping) ==
    IF ~(\A i \in DOMAIN mapping : mapping[i][1] \in Range(df.columns))
    THEN Raise(df, "ViolationError")
    ELSE ReturnNew(df,
            DataFrame(df.index,
                      [j \in DOMAIN df.columns |-> renamed(mapping, df.columns[j])],
                      [i \in DOMAIN df.data |->
                          [c \in {renamed(mapping, d) : d \in Range(df.columns)} |->
                              df.data[i][CHOOSE d \in Range(df.columns) :
                                             renamed(mapping, d) = c]]]))

\* df.loc[:, column_names]
_extract_columns(df, column_names) ==
    IF ~has_columns(df, column_names) THEN Raise(df, "ViolationError")
    ELSE ReturnNew(df,
            DataFrame(df.index, column_names,
                      [i \in DOMAIN df.data |->
                          [c \in Range(column_names) |-> df.data[i][c]]]))

\* the cells of row i in the columns `on`
key(df, on, i) == [j \in DOMAIN on |-> df.data[i][on[j]]]

cell_lt(a, b) ==
    IF a.k = "str" /\ b.k = "str" THEN Rank(a.s) < Rank(b.s)
    ELSE IF a.k = "num" /\ b.k = "num" THEN a.n < b.n
    ELSE a.k = "num" /\ b.k = "str"

\* tuples of cells in lexicographic order
RECURSIVE key_lt(_, _)
key_lt(a, b) ==
    IF a = <<>> \/ b = <<>> THEN FALSE
    ELSE IF cell_lt(Head(a), Head(b)) THEN TRUE
    ELSE IF cell_lt(Head(b), Head(a)) THEN FALSE
    ELSE key_lt(Tail(a), Tail(b))

RECURSIVE sorted_keys(_)
sorted_keys(keys) ==
    IF keys = {} THEN <<>>
    ELSE LET least == CHOOSE a \in keys : \A b \in keys : ~key_lt(b, a)
         IN <<least>> \o sorted_keys(keys \ {least})

\* the group keys of df.groupby(on): sorted, rows with a NaN key left out
group_keys(df, on) ==
    sorted_keys({key(df, on, i) : i \in
                    {h \in DOMAIN df.data :
                        \A j \in DOMAIN on : df.data[h][on[j]].k # "nan"}})

\* the columns groupby(on).sum(numeric_only) keeps: numeric, not a key
numeric_columns(df, on) ==
    SeqWithout(df.columns,
               Range(on) \cup
               {c \in Range(df.columns) :
                   \E i \in DOMAIN df.data : df.data[i][c].k \notin {"num", "nan"}})

RECURSIVE sum_cells(_)
sum_cells(cells) ==
    IF cells = <<>> THEN 0
    ELSE (IF Head(cells).k = "num" THEN Head(cells).n ELSE 0)
         + sum_cells(Tail(cells))

\* the sum of column c over the rows of df whose key is k
group_sum(df, on, k, c) ==
    sum_cells(column(take(df,
        Positions(len(df), 1, {i \in DOMAIN df.data : key(df, on, i) = k})), c))

\* df.groupby(on).sum(target).reset_index(drop=True): target lands in the
\* numeric_only parameter; one row per group in sorted key order, indexed
\* 0..G-1, one column per numeric non-key column
grouped_sum(df, on) ==
    LET keys == group_keys(df, on)
        cols == numeric_columns(df, on)
    IN DataFrame(RangeIndex(Len(keys)), cols,
                 [g \in DOMAIN keys |->
                     [c \in Range(cols) |-> Num(group_sum(df, on, keys[g], c))]])

\* df[result] = <one-column frame>: the frame's values go to the rows of
\* df by index label, NaN where df has a label the frame lacks
setitem_frame(df, result, frame) ==
    setitem(df, result,
        [i \in DOMAIN df.data |->
            IF \E g \in DOMAIN frame.index : frame.index[g] = df.index[i]
            THEN frame.data[CHOOSE g \in DOMAIN frame.index :
                                frame.index[g] = df.index[i]][frame.columns[1]]
            ELSE NaN])

\* df[result] = df.groupby(on).sum(target).reset_index(drop=True)
_sum_energies_for_multiple_entry_addresses(df, on, target, result) ==
    IF ~has_columns(df, on) \/ target \notin Range(df.columns)
    THEN Raise(df, "ViolationError")
    ELSE IF Len(grouped_sum(df, on).columns) # 1
    THEN Raise(df, "ValueError")
    ELSE ReturnSelf(setitem_frame(df, result, grouped_sum(df, on)))

\* df[result] = group_similar_strings(df[target], min_similarity=0.95)
_dedupe_column(df, target, result) ==
    IF target \notin Range(df.columns) THEN Raise(df, "ViolationError")
    ELSE IF \E i \in DOMAIN df.data : df.data[i][target].k # "str"
    THEN Raise(df, "TypeError")
    ELSE ReturnSelf(setitem(df, result,
            LET strings == [i \in DOMAIN df.data |-> df.data[i][target].s]
            IN [i \in DOMAIN df.data |-> Str(group_similar_strings(strings)[i])]))

\* as _drop_duplicates, had it kept the last row of each key (keep="last")
_drop_duplicates_keep_last(df, on) ==
    IF ~has_columns(df, on) THEN Raise(df, "ViolationError")
    ELSE ReturnNew(df,
            take(df, Positions(len(df), 1,
                {i \in DOMAIN df.data :
                    \A h \in (i + 1)..len(df) : key(df, on, h) # key(df, on, i)})))

\* df.drop_duplicates(subset=on): the first row of each key stays
_drop_duplicates(df, on) ==
    IF ~has_columns(df, on) THEN Raise(df, "ViolationError")
    ELSE ReturnNew(df,
            take(df, Positions(len(df), 1,
                {i \in DOMAIN df.data :
                    \A h \in 1..(i - 1) : key(df, on, h) # key(df, on, i)})))

\* the keys of a frame are unique in the columns `on`
unique_keys(df, on) ==
    \A i, h \in DOMAIN df.data : key(df, on, i) = key(df, on, h) => i = h

\* the pairs <<left position, right position>> a merge puts out for left
\* row i (0: no row on that side)
left_pairs(left, right, on, how, i) ==
    LET matches == Positions(len(right), 1,
                       {j \in DOMAIN right.data :
                           key(right, on, j) = key(left, on, i)})
    IN IF matches = <<>>
       THEN (IF how = "inner" THEN <<>> ELSE <<<<i, 0>>>>)
       ELSE [m \in DOMAIN matches |-> <<i, matches[m]>>]

RECURSIVE merge_pairs(_, _, _, _, _)
merge_pairs(left, right, on, how, i) ==
    IF i > len(left)
    THEN (IF how = "outer"
          THEN LET unmatched == Positions(len(right), 1,
                       {j \in DOMAIN right.data :
                           \A h \in DOMAIN left.data :
                               key(left, on, h) # key(right, on, j)})
               IN [m \in DOMAIN unmatched |-> <<0, unmatched[m]>>]
          ELSE <<>>)
    ELSE left_pairs(left, right, on, how, i)
         \o merge_pairs(left, right, on, how, i + 1)

\* the non-key columns both sides have get the suffixes _x and _y
merge_name(left, right, on, name, suffix) ==
    IF name \in (Range(left.columns) \cap Range(right.columns)) \ Range(on)
    THEN name \o suffix
    ELSE name

\* the columns of the merged frame: <<name, side, name on that side>>
merge_columns(left, right, on, indicator) ==
    [j \in DOMAIN left.columns |->
        <<merge_name(left, right, on, left.columns[j], "_x"), "left",
          left.columns[j]>>]
    \o (LET others == SeqWithout(right.columns, Range(on))
        IN [j \in DOMAIN others |->
               <<merge_name(left, right, on, others[j], "_y"), "right",
                 others[j]>>])
    \o (IF indicator THEN <<<<"_merge", "indicator", "_merge">>>> ELSE <<>>)

merge_cell(left, right, on, pair, col) ==
    CASE col[2] = "left" ->
            IF pair[1] # 0 THEN left.data[pair[1]][col[3]]
            ELSE IF col[3] \in Range(on) THEN right.data[pair[2]][col[3]]
            ELSE NaN
      [] col[2] = "right" ->
            IF pair[2] # 0 THEN right.data[pair[2]][col[3]] ELSE NaN
      [] OTHER ->
            Str(IF pair[2] = 0 THEN "left_only"
                ELSE IF pair[1] = 0 THEN "right_only" ELSE "both")

\* left.merge(right, on=on, how=how, indicator=indicator, validate=validate)
merge(left, right, on, how, indicator, validate) ==
    IF \/ validate \in {"one_to_one", "one_to_many"} /\ ~unique_keys(left, on)
       \/ validate \in {"one_to_one", "many_to_one"} /\ ~unique_keys(right, on)
    THEN Raise(left, "MergeError")
    ELSE LET pairs == merge_pairs(left, right, on, how, 1)
             cols == merge_columns(left, right, on, indicator)
         IN ReturnNew(left,
                DataFrame(RangeIndex(Len(pairs)),
                          [j \in DOMAIN cols |-> cols[j][1]],
                          [p \in DOMAIN pairs |->
                              [c \in {cols[j][1] : j \in DOMAIN cols} |->
                                  merge_cell(left, right, on, pairs[p],
                                      cols[CHOOSE j \in DOMAIN cols :
                                               cols[j][1] = c])]]))

\* keyword arguments a call leaves out take pandas' defaults
kwarg(kwargs, name, default) ==
    IF name \in DOMAIN kwargs THEN kwargs[name] ELSE default

\* mprn.merge(gprn, on=on, **kwargs)
_merge_mprn_and_gprn_on_common_addresses(mprn, gprn, on, kwargs) ==
    IF ~has_columns(mprn, on) \/ ~has_columns(gprn, on)
    THEN Raise(mprn, "ViolationError")
    ELSE merge(mprn, gprn, on, kwarg(kwargs, "how", "inner"),
               kwarg(kwargs, "indicator", FALSE),
               kwarg(kwargs, "validate", "None"))

\* df[result] = df.copy()[target].apply(parse_address)
_parse_standardised_address(df, target, result) ==
    IF target \notin Range(df.columns) THEN Raise(df, "ViolationError")
    ELSE IF \E i \in DOMAIN df.data : df.data[i][target].k # "str"
    THEN Raise(df, "TypeError")
    ELSE ReturnSelf(setitem(df, result,
            [i \in DOMAIN df.data |->
                PairList(parse_address(df.data[i][target].s))]))

\* df[result] = df.copy()[target].apply({pair[1]: pair[0] for pair in cell})
_convert_parsed_address_to_dict(df, target, result) ==
    IF target \notin Range(df.columns) THEN Raise(df, "ViolationError")
    ELSE IF \E i \in DOMAIN df.data : df.data[i][target].k # "list"
    THEN Raise(df, "TypeError")
    ELSE ReturnSelf(setitem(df, result,
            [i \in DOMAIN df.data |->
                Dict(dict_of_pairs(df.data[i][target].l, <<>>))]))

\* as _reset_index, had it returned the frame under its old labels
_reset_index_keeping_labels(df) == ReturnNew(df, df)

\* df.reset_index(): the old labels become the first column, named "index"
\* or, if that name is taken, "level_0"
_reset_index(df) ==
    IF {"index", "level_0"} \subseteq Range(df.columns)
    THEN Raise(df, "ValueError")
    ELSE LET name == IF "index" \in Range(df.columns) THEN "level_0"
                     ELSE "index"
         IN ReturnNew(df,
                DataFrame(RangeIndex(len(df)), <<name>> \o df.columns,
                          [i \in DOMAIN df.data |->
                              [c \in Range(df.columns) \cup {name} |->
                                  IF c = name THEN Num(df.index[i])
                                  ELSE df.data[i][c]]]))

\* the elements of a sequence, each once, in order of first occurrence
RECURSIVE distinct(_, _)
distinct(s, seen) ==
    IF s = <<>> THEN <<>>
    ELSE IF Head(s) \in seen THEN distinct(Tail(s), seen)
    ELSE <<Head(s)>> \o distinct(Tail(s), seen \cup {Head(s)})

RECURSIVE all_labels(_)
all_labels(dicts) ==
    IF dicts = <<>> THEN <<>>
    ELSE [j \in DOMAIN Head(dicts).l |-> Head(dicts).l[j][1]]
         \o all_labels(Tail(dicts))

\* pd.json_normalize(series of dicts): one row per dict under a fresh
\* 0..N-1 index, one column per label in order of first occurrence, NaN
\* where a dict lacks the label
json_normalize(dicts) ==
    LET labels == distinct(all_labels(dicts), {})
    IN DataFrame(RangeIndex(Len(dicts)), labels,
                 [i \in DOMAIN dicts |->
                     [c \in Range(labels) |-> dict_get(dicts[i].l, c)]])

RECURSIVE sorted_ints(_)
sorted_ints(S) ==
    IF S = {} THEN <<>>
    ELSE LET least == CHOOSE a \in S : \A b \in S : a <= b
         IN <<least>> \o sorted_ints(S \ {least})

\* the row labels of pd.concat([a, b], axis="columns"): a's labels, then
\* those only b has; releases of pandas differ in whether a union of
\* unequal indexes comes out sorted
union_index(a, b, sorted) ==
    IF a = b THEN a
    ELSE IF sorted THEN sorted_ints(Range(a) \cup Range(b))
    ELSE a \o SeqWithout(b, Range(a))

\* the row of df labelled by label, NaN in every column when there is none
row_at(df, label) ==
    IF \E i \in DOMAIN df.index : df.index[i] = label
    THEN df.data[CHOOSE i \in DOMAIN df.index : df.index[i] = label]
    ELSE [c \in Range(df.columns) |-> NaN]

\* pd.concat([a, b], axis="columns"): rows are matched by index label
concat_columns(a, b, sorted) ==
    LET index == union_index(a.index, b.index, sorted)
    IN DataFrame(index, a.columns \o b.columns,
                 [i \in DOMAIN index |->
                     [c \in Range(a.columns) \cup Range(b.columns) |->
                         IF c \in Range(b.columns) THEN row_at(b, index[i])[c]
                         ELSE row_at(a, index[i])[c]]])

no_duplicates(s) == \A i, j \in DOMAIN s : s[i] = s[j] => i = j

\* the two @require of _expand_parsed_address_dict.  df.index[-1] raises
\* IndexError on an empty frame; which contract is evaluated first is
\* icontract's choice (index_first)
expand_preconditions(df, target, index_first) ==
    LET named == IF target \in Range(df.columns) THEN "None"
                 ELSE "ViolationError"
        index == IF len(df) = 0 THEN "IndexError"
                 ELSE IF len(df) - 1 = df.index[len(df)] THEN "None"
                 ELSE "ViolationError"
    IN IF index_first
       THEN (IF index # "None" THEN index ELSE named)
       ELSE (IF named # "None" THEN named ELSE index)

\* parsed_address = pd.json_normalize(df[target])
\* return pd.concat([df, parsed_address], axis="columns")
_expand_parsed_address_dict(df, target, lib) ==
    IF expand_preconditions(df, target, lib.index_first) # "None"
    THEN Raise(df, expand_preconditions(df, target, lib.index_first))
    ELSE IF \E i \in DOMAIN df.data : df.data[i][target].k # "dict"
    THEN Raise(df, "AttributeError")
    ELSE IF ~no_duplicates(df.index) /\ df.index # RangeIndex(len(df))
    THEN Raise(df, "InvalidIndexError")
    ELSE ReturnNew(df,
            concat_columns(df, json_normalize(column(df, target)),
                           lib.sorted_union))

\* what the installed libraries leave open
Libraries == [index_first : BOOLEAN, sorted_union : BOOLEAN]

\* df.drop(columns=column_names)
_drop_columns(df, column_names) ==
    IF ~has_columns(df, column_names) THEN Raise(df, "ViolationError")
    ELSE LET kept == SeqWithout(df.columns, Range(column_names))
         IN ReturnNew(df,
                DataFrame(df.index, kept,
                          [i \in DOMAIN df.data |->
                              [c \in Range(kept) |-> df.data[i][c]]]))

-----------------------------------------------------------------------------
(* The tasks of utilities/gni.py that m_and_r.py does not have.            *)

\* df[result] = df[target].astype(str).str.replace(r"\s+", " ")
\* no @require: a missing target is pandas' KeyError
_strip_whitespace(df, target, result) ==
    IF target \notin Range(df.columns) THEN Raise(df, "KeyError")
    ELSE ReturnSelf(setitem(df, result,
            [i \in DOMAIN df.data |->
                Str(collapse_whitespace(astype_str(df.data[i][target])))]))

\* gas.merge(postcodes, on=on, validate=validate, **kwargs)
_merge_on_common_postcodes(gas, postcodes, on, validate, kwargs) ==
    IF ~has_columns(gas, on) \/ ~has_columns(postcodes, on)
    THEN Raise(gas, "ViolationError")
    ELSE merge(gas, postcodes, on, kwarg(kwargs, "how", "inner"),
               kwarg(kwargs, "indicator", FALSE), validate)

-----------------------------------------------------------------------------
(* Running a flow.  Prefect runs the tasks of a flow in some topological    *)
(* order of its data dependencies; a task starts once all its upstream      *)
(* tasks have finished, runs only if all of them succeeded (otherwise it    *)
(* ends TriggerFailed), and ends Failed when its function raises.  With     *)
(* the local executor a task receives the very objects its upstream tasks   *)
(* returned.                                                                *)

\* the DataFrame task u returned, as it is now
Arg(u) == heap[ref[u]]

\* task t, fed by the tasks ups (the first one supplies df), does o
Execute(t, ups, o) ==
    /\ state[t] = "Pending"
    /\ \A i \in DOMAIN ups : state[ups[i]] # "Pending"
    /\ IF \E i \in DOMAIN ups : state[ups[i]] # "Success"
       THEN /\ state' = [state EXCEPT ![t] = "TriggerFailed"]
            /\ UNCHANGED <<heap, ref, error>>
       ELSE IF o.raised # "None"
       THEN /\ state' = [state EXCEPT ![t] = "Failed"]
            /\ error' = [error EXCEPT ![t] = o.raised]
            /\ heap' = [heap EXCEPT ![ref[ups[1]]] = o.df]
            /\ UNCHANGED ref
       ELSE /\ state' = [state EXCEPT ![t] = "Success"]
            /\ ref' = [ref EXCEPT ![t] = IF o.same THEN ref[ups[1]] ELSE t]
            /\ heap' = IF o.same THEN [heap EXCEPT ![ref[ups[1]]] = o.df]
                       ELSE [heap EXCEPT ![ref[ups[1]]] = o.df, ![t] = o.ret]
            /\ UNCHANGED error

\* the data dependencies of the flow: the tasks whose results a task takes
upstream_tasks(t) ==
    CASE t = "mprn_aggregated" ->
            <<"mprn_raw">>
      [] t = "mprn_renamed" ->
            <<"mprn_aggregated">>
      [] t = "mprn_with_addresses" ->
            <<"mprn_renamed">>
      [] t = "mprn_address_deduped" ->
            <<"mprn_with_addresses">>
      [] t = "mprn_summated" ->
            <<"mprn_address_deduped">>
      [] t = "mprn_deduped" ->
            <<"mprn_summated">>
      [] t = "gprn_aggregated" ->
            <<"gprn_raw">>
      [] t = "gprn_renamed" ->
            <<"gprn_aggregated">>
      [] t = "gprn_with_addresses" ->
            <<"gprn_renamed">>
      [] t = "gprn_address_deduped" ->
            <<"gprn_with_addresses">>
      [] t = "gprn_summated" ->
            <<"gprn_address_deduped">>
      [] t = "gprn_deduped" ->
            <<"gprn_summated">>
      [] t = "gprn_extracted" ->
            <<"gprn_deduped">>
      [] t = "m_and_r_raw" ->
            <<"mprn_deduped", "gprn_extracted">>
      [] t = "m_and_r_with_parsed_address" ->
            <<"m_and_r_raw">>
      [] t = "m_and_r_with_parsed_address_dict" ->
            <<"m_and_r_with_parsed_address">>
      [] t = "m_and_r_with_parsed_address_expanded" ->
            <<"m_and_r_with_parsed_address_dict">>
      [] t = "vo_with_standardised_address" ->
            <<"vo_raw">>
      [] t = "vo_with_parsed_address" ->
            <<"vo_with_standardised_address">>
      [] t = "vo_with_parsed_address_dict" ->
            <<"vo_with_parsed_address">>
      [] t = "vo_with_index_reset" ->
            <<"vo_with_parsed_address_dict">>
      [] t = "vo_with_parsed_address_expanded" ->
            <<"vo_with_index_reset">>
      [] t = "m_and_r_compatible_with_parquet" ->
            <<"m_and_r_with_parsed_address_expanded">>
      [] t = "save_m_and_r" ->
            <<"m_and_r_compatible_with_parquet">>
      [] OTHER -> <<>>

Run(t, o) ==
    /\ Execute(t, upstream_tasks(t), o)
    /\ UNCHANGED <<files, writes, call>>

\* pd.read_parquet(filepath)
_read_parquet_file(t, filepath) ==
    /\ state[t] = "Pending"
    /\ IF files[filepath].exists
       THEN /\ state' = [state EXCEPT ![t] = "Success"]
            /\ ref' = [ref EXCEPT ![t] = t]
            /\ heap' = [heap EXCEPT ![t] = files[filepath].df]
            /\ UNCHANGED error
       ELSE /\ state' = [state EXCEPT ![t] = "Failed"]
            /\ error' = [error EXCEPT ![t] = "FileNotFoundError"]
            /\ UNCHANGED <<heap, ref>>
    /\ UNCHANGED <<files, writes, call>>

\* as _save_to_parquet_file, had the task run whatever became of its upstream
_save_whatever_upstream(t, up, filepath) ==
    /\ state[t] = "Pending"
    /\ state[up] # "Pending"
    /\ state' = [state EXCEPT ![t] = "Success"]
    /\ files' = [files EXCEPT ![filepath] =
                    [exists |-> TRUE,
                     df |-> IF state[up] = "Success" THEN Arg(up) ELSE NoFrame]]
    /\ writes' = writes + 1
    /\ UNCHANGED <<heap, ref, error, call>>

\* df.to_parquet(filepath)
_save_to_parquet_file(t, up, filepath) ==
    /\ state[t] = "Pending"
    /\ state[up] # "Pending"
    /\ IF state[up] # "Success"
       THEN /\ state' = [state EXCEPT ![t] = "TriggerFailed"]
            /\ UNCHANGED <<files, writes>>
       ELSE /\ state' = [state EXCEPT ![t] = "Success"]
            /\ files' = [files EXCEPT ![filepath] =
                            [exists |-> TRUE, df |-> Arg(up)]]
            /\ writes' = writes + 1
    /\ UNCHANGED <<heap, ref, error, call>>

-----------------------------------------------------------------------------
(* The flow "Merge MPRN and GPRN" of m_and_r.py, one action per statement.  *)

mprn_raw == _read_parquet_file("mprn_raw", "mprn.parquet")
gprn_raw == _read_parquet_file("gprn_raw", "gprn.parquet")
vo_raw == _read_parquet_file("vo_raw", "vo_dublin.parquet")

mprn_aggregated ==
    Run("mprn_aggregated",
        _aggregate_columns(Arg("mprn_raw"), <<"PB Name", "Location">>,
                           "combined_address"))
mprn_renamed ==
    Run("mprn_renamed",
        _rename_columns(Arg("mprn_aggregated"),
            <<<<"Attributable Total Final Consumption (kWh)",
                "electricity_demand_kwh_year">>>>))
mprn_with_addresses ==
    Run("mprn_with_addresses",
        _standardise_addresses(Arg("mprn_renamed"), "combined_address",
                               "standardised_address"))
mprn_address_deduped ==
    Run("mprn_address_deduped",
        _dedupe_column(Arg("mprn_with_addresses"), "standardised_address",
                       "deduped_address"))
mprn_summated ==
    Run("mprn_summated",
        _sum_energies_for_multiple_entry_addresses(
            Arg("mprn_address_deduped"), <<"standardised_address", "Year">>,
            "electricity_demand_kwh_year",
            "summated_electricity_demand_kwh_year"))
mprn_deduped ==
    Run("mprn_deduped",
        _drop_duplicates(Arg("mprn_summated"),
                         <<"standardised_address", "Year">>))

gprn_aggregated ==
    Run("gprn_aggregated",
        _aggregate_columns(Arg("gprn_raw"), <<"PB Name", "Location">>,
                           "combined_address"))
gprn_renamed ==
    Run("gprn_renamed",
        _rename_columns(Arg("gprn_aggregated"),
            <<<<"Attributable Total Final Consumption (kWh)",
                "gas_demand_kwh_year">>>>))
gprn_with_addresses ==
    Run("gprn_with_addresses",
        _standardise_addresses(Arg("gprn_renamed"), "combined_address",
                               "standardised_address"))
gprn_address_deduped ==
    Run("gprn_address_deduped",
        _dedupe_column(Arg("gprn_with_addresses"), "standardised_address",
                       "deduped_address"))
gprn_summated ==
    Run("gprn_summated",
        _sum_energies_for_multiple_entry_addresses(
            Arg("gprn_address_deduped"), <<"standardised_address", "Year">>,
            "gas_demand_kwh_year", "summated_gas_demand_kwh_year"))
gprn_deduped ==
    Run("gprn_deduped",
        _drop_duplicates(Arg("gprn_summated"),
                         <<"standardised_address", "Year">>))
gprn_extracted ==
    Run("gprn_extracted",
        _extract_columns(Arg("gprn_deduped"),
            <<"deduped_address", "standardised_address", "Year",
              "summated_gas_demand_kwh_year">>))

m_and_r_raw ==
    Run("m_and_r_raw",
        _merge_mprn_and_gprn_on_common_addresses(
            Arg("mprn_deduped"), Arg("gprn_extracted"),
            <<"standardised_address", "Year">>,
            [how |-> "left", indicator |-> TRUE]))
m_and_r_with_parsed_address ==
    Run("m_and_r_with_parsed_address",
        _parse_standardised_address(Arg("m_and_r_raw"),
                                    "standardised_address", "parsed_address"))
m_and_r_with_parsed_address_dict ==
    Run("m_and_r_with_parsed_address_dict",
        _convert_parsed_address_to_dict(Arg("m_and_r_with_parsed_address"),
                                        "parsed_address", "parsed_address_dict"))
m_and_r_with_parsed_address_expanded ==
    \E lib \in Libraries :
        Run("m_and_r_with_parsed_address_expanded",
        _expand_parsed_address_dict(
                Arg("m_and_r_with_parsed_address_dict"),
                "parsed_address_dict", lib))

vo_with_standardised_address ==
    Run("vo_with_standardised_address",
        _standardise_addresses(Arg("vo_raw"), "Address",
                               "standardised_address"))
vo_with_parsed_address ==
    Run("vo_with_parsed_address",
        _parse_standardised_address(Arg("vo_with_standardised_address"),
                                    "standardised_address", "parsed_address"))
vo_with_parsed_address_dict ==
    Run("vo_with_parsed_address_dict",
        _convert_parsed_address_to_dict(Arg("vo_with_parsed_address"),
                                        "parsed_address", "parsed_address_dict"))
vo_with_index_reset ==
    Run("vo_with_index_reset",
        _reset_index(Arg("vo_with_parsed_address_dict")))
vo_with_parsed_address_expanded ==
    \E lib \in Libraries :
        Run("vo_with_parsed_address_expanded",
        _expand_parsed_address_dict(Arg("vo_with_index_reset"),
                                        "parsed_address_dict", lib))

m_and_r_compatible_with_parquet ==
    Run("m_and_r_compatible_with_parquet",
        _drop_columns(Arg("m_and_r_with_parsed_address_expanded"),
                      <<"parsed_address", "parsed_address_dict">>))
save_m_and_r ==
    _save_to_parquet_file("save_m_and_r", upstream_tasks("save_m_and_r")[1],
                          "m_and_r.parquet")

Tasks ==
    {"mprn_raw", "gprn_raw", "vo_raw",
     "mprn_aggregated", "mprn_renamed", "mprn_with_addresses",
     "mprn_address_deduped", "mprn_summated", "mprn_deduped",
     "gprn_aggregated", "gprn_renamed", "gprn_with_addresses",
     "gprn_address_deduped", "gprn_summated", "gprn_deduped", "gprn_extracted",
     "m_and_r_raw", "m_and_r_with_parsed_address",
     "m_and_r_with_parsed_address_dict", "m_and_r_with_parsed_address_expanded",
     "vo_with_standardised_address", "vo_with_parsed_address",
     "vo_with_parsed_address_dict", "vo_with_index_reset",
     "vo_with_parsed_address_expanded",
     "m_and_r_compatible_with_parquet", "save_m_and_r"}

-----------------------------------------------------------------------------
(* The inputs of the flow: what the three parquet files hold.               *)

MaxRows == 2

\* all frames of at most n rows drawn from rows, under a default index
Frames(rows, columns, n) ==
    {DataFrame(RangeIndex(Len(data)), columns, data) :
        data \in UNION {[1..k -> rows] : k \in 0..n}}

\* the same frame as a file written after rows were filtered out of it
filtered(df) == [df EXCEPT !.index = [i \in DOMAIN df.index |-> 2 * i + 1]]

MeterColumns ==
    <<"PB Name", "Location", "Year",
      "Attributable Total Final Consumption (kWh)">>

MeterRow(name, year, kwh) ==
    [c \in Range(MeterColumns) |->
        CASE c = "PB Name" -> Str(name)
          [] c = "Location" -> Str("Dublin")
          [] c = "Year" -> Num(year)
          [] OTHER -> Num(kwh)]

\* two spellings of one building
MprnRows ==
    {MeterRow("Peamount Hospital", 2019, 10),
     MeterRow("Peamont Hospital", 2019, 5)}

VoRow(address) == [c \in {"Address"} |-> Str(address)]

File(df) == [exists |-> TRUE, df |-> df]
Missing == [exists |-> FALSE, df |-> NoFrame]

\* the meter files hold at least one row; one of them lists a building
\* twice ahead of another, so that dropping the duplicate leaves a gap
MprnFiles ==
    {File(df) : df \in {f \in Frames(MprnRows, MeterColumns, MaxRows) :
                           len(f) > 0}}
    \cup {File(DataFrame(<<0, 1, 2>>, MeterColumns,
                         <<MeterRow("Peamount Hospital", 2019, 10),
                           MeterRow("Peamount Hospital", 2019, 10),
                           MeterRow("Peamont Hospital", 2019, 5)>>)),
          Missing}

GprnFiles ==
    {File(DataFrame(<<0>>, MeterColumns,
                    <<MeterRow("Peamount Hospital", 2019, 4)>>)),
     File(DataFrame(<<0>>, MeterColumns,
                    <<MeterRow("Leinster House", 2020, 6)>>)),
     File(DataFrame(<<0, 1>>, MeterColumns,
                    <<MeterRow("Peamount Hospital", 2019, 4),
                      MeterRow("Peamount Hospital", 2019, 2)>>)),
     Missing}

\* the valuation-office file may be empty, may carry a filtered index and
\* may lack the Address column
VoFiles ==
    {File(DataFrame(<<>>, <<"Address">>, <<>>)),
     File(DataFrame(<<0>>, <<"Address">>, <<VoRow("1 Main St, Dublin")>>)),
     File(filtered(DataFrame(<<0, 1>>, <<"Address">>,
                             <<VoRow("1 Main St, Dublin"),
                               VoRow("Leinster House, Dublin")>>))),
     File(DataFrame(<<0>>, <<"Property Number">>,
                    <<[c \in {"Property Number"} |-> Num(1)]>>)),
     Missing}

NoCall == [fn |-> "None", args |-> <<>>, before |-> NoFrame]

Init ==
    /\ heap = [t \in Tasks |-> NoFrame]
    /\ ref = [t \in Tasks |-> "None"]
    /\ state = [t \in Tasks |-> "Pending"]
    /\ error = [t \in Tasks |-> "None"]
    /\ \E mprn \in MprnFiles, gprn \in GprnFiles, vo \in VoFiles :
           files = [f \in {"mprn.parquet", "gprn.parquet", "vo_dublin.parquet",
                           "m_and_r.parquet"} |->
                       CASE f = "mprn.parquet" -> mprn
                         [] f = "gprn.parquet" -> gprn
                         [] f = "vo_dublin.parquet" -> vo
                         [] OTHER -> Missing]
    /\ writes = 0
    /\ call = NoCall

Next ==
    \/ mprn_raw
    \/ gprn_raw
    \/ vo_raw
    \/ mprn_aggregated
    \/ mprn_renamed
    \/ mprn_with_addresses
    \/ mprn_address_deduped
    \/ mprn_summated
    \/ mprn_deduped
    \/ gprn_aggregated
    \/ gprn_renamed
    \/ gprn_with_addresses
    \/ gprn_address_deduped
    \/ gprn_summated
    \/ gprn_deduped
    \/ gprn_extracted
    \/ m_and_r_raw
    \/ m_and_r_with_parsed_address
    \/ m_and_r_with_parsed_address_dict
    \/ m_and_r_with_parsed_address_expanded
    \/ vo_with_standardised_address
    \/ vo_with_parsed_address
    \/ vo_with_parsed_address_dict
    \/ vo_with_index_reset
    \/ vo_with_parsed_address_expanded
    \/ m_and_r_compatible_with_parquet
    \/ save_m_and_r

Spec == Init /\ [][Next]_vars

-----------------------------------------------------------------------------
(* One task on its own: a frame is drawn, one task function is called on    *)
(* it with the column names of the flows or with a name the frame lacks,    *)
(* and `call` keeps the function, its arguments and the frame as it was.    *)

MaxStepRows == 3

StepColumns ==
    <<"Address", "postcodes", "Year", "kwh", "address", "parsed_address",
      "parsed_address_dict">>

\* a row part-way down the pipeline: the address standardised, parsed
\* and converted as the tasks above do it
StepRow(raw, postcode, year, kwh) ==
    [c \in Range(StepColumns) |->
        CASE c = "Address" -> Str(raw)
          [] c = "postcodes" -> Str(postcode)
          [] c = "Year" -> Num(year)
          [] c = "kwh" -> Num(kwh)
          [] c = "address" -> Str(expand_address(raw)[1])
          [] c = "parsed_address" ->
                PairList(parse_address(expand_address(raw)[1]))
          [] OTHER ->
                Dict(dict_of_pairs(parse_address(expand_address(raw)[1]), <<>>))]

StepRows ==
    {StepRow("Peamount Hospital, Dublin", "Dublin 1", 2019, 10),
     StepRow("Peamount Hospital, Dublin", "Dublin 1", 2019, 5),
     StepRow("Peamont Hospital, Dublin", "Dublin  1", 2019, 5),
     StepRow("Leinster House, Dublin", "Dublin 2", 2019, 7),
     StepRow("1 Main St, Dublin", "Dublin 2", 2020, 3)}

\* row indexes that filtering, sorting and concatenation leave behind
IndexSamples ==
    {<<1>>, <<1, 0>>, <<0, 2>>, <<1, 1>>,
     <<0, 2, 5>>, <<1, 0, 2>>, <<0, 2, 2>>, <<5, 0, 2>>}

Indexes(n) == {RangeIndex(n)} \cup {s \in IndexSamples : Len(s) = n}

StepFrames ==
    {DataFrame(index, StepColumns, data) :
        <<index, data>> \in
            UNION {Indexes(k) \X [1..k -> StepRows] : k \in 0..MaxStepRows}}

StepObjects == {"df", "right", "step"}

StepInit ==
    /\ \E df \in StepFrames :
           heap = [o \in StepObjects |-> IF o = "df" THEN df ELSE NoFrame]
    /\ ref = [o \in StepObjects |-> IF o = "step" THEN "None" ELSE o]
    /\ state = [o \in StepObjects |->
                   IF o = "step" THEN "Pending" ELSE "Success"]
    /\ error = [o \in StepObjects |-> "None"]
    /\ files = [f \in {"m_and_r.parquet"} |-> Missing]
    /\ writes = 0
    /\ call = NoCall

\* the task "step" calls fn(df, args) and does o
Apply(fn, args, o) ==
    /\ Execute("step", <<"df">>, o)
    /\ call' = [fn |-> fn, args |-> args, before |-> heap["df"]]
    /\ UNCHANGED <<files, writes>>

step_aggregate_columns ==
    \E column_names \in {<<"Address", "postcodes">>,
                         <<"Address", "i_dont_exist">>} :
        Apply("_aggregate_columns",
              [column_names |-> column_names, to_column |-> "combined_address"],
              _aggregate_columns(heap["df"], column_names, "combined_address"))

step_standardise_addresses ==
    \E on_column \in {"Address", "i_dont_exist"} :
        Apply("_standardise_addresses",
              [on_column |-> on_column, to_column |-> "standardised_address"],
              _standardise_addresses(heap["df"], on_column,
                                     "standardised_address"))

step_rename_columns ==
    \E mapping \in {<<<<"kwh", "electricity_demand_kwh_year">>>>,
                    <<<<"kwh", "electricity_demand_kwh_year">>,
                      <<"i_dont_exist", "renamed">>>>} :
        Apply("_rename_columns", [mapping |-> mapping],
              _rename_columns(heap["df"], mapping))

step_extract_columns ==
    \E column_names \in {<<"address", "Year">>, <<"Year", "i_dont_exist">>} :
        Apply("_extract_columns", [column_names |-> column_names],
              _extract_columns(heap["df"], column_names))

\* called on frames that have rows
step_sum_energies ==
    /\ len(heap["df"]) > 0
    /\ \E on \in {<<"address", "Year">>, <<"address">>,
                  <<"i_dont_exist", "Year">>},
          target \in {"kwh", "i_dont_exist"} :
        Apply("_sum_energies_for_multiple_entry_addresses",
              [on |-> on, target |-> target, result |-> "summated_kwh"],
              _sum_energies_for_multiple_entry_addresses(
                  heap["df"], on, target, "summated_kwh"))

step_dedupe_column ==
    \E target \in {"address", "i_dont_exist"} :
        Apply("_dedupe_column",
              [target |-> target, result |-> "deduped_address"],
              _dedupe_column(heap["df"], target, "deduped_address"))

step_drop_duplicates ==
    \E on \in {<<"address", "Year">>, <<"Year">>,
               <<"address", "i_dont_exist">>} :
        Apply("_drop_duplicates", [on |-> on],
              _drop_duplicates(heap["df"], on))

step_parse_standardised_address ==
    \E target \in {"address", "i_dont_exist"} :
        Apply("_parse_standardised_address",
              [target |-> target, result |-> "parsed"],
              _parse_standardised_address(heap["df"], target, "parsed"))

step_convert_parsed_address_to_dict ==
    \E target \in {"parsed_address", "i_dont_exist"} :
        Apply("_convert_parsed_address_to_dict",
              [target |-> target, result |-> "parsed_dict"],
              _convert_parsed_address_to_dict(heap["df"], target,
                                              "parsed_dict"))

step_reset_index ==
    Apply("_reset_index", <<>>, _reset_index(heap["df"]))

step_expand_parsed_address_dict ==
    \E target \in {"parsed_address_dict", "i_dont_exist"}, lib \in Libraries :
        Apply("_expand_parsed_address_dict", [target |-> target, lib |-> lib],
              _expand_parsed_address_dict(heap["df"], target, lib))

step_drop_columns ==
    \E column_names \in {<<"parsed_address", "parsed_address_dict">>,
                         <<"parsed_address", "i_dont_exist">>} :
        Apply("_drop_columns", [column_names |-> column_names],
              _drop_columns(heap["df"], column_names))

step_strip_whitespace ==
    \E target \in {"postcodes", "i_dont_exist"} :
        Apply("_strip_whitespace", [target |-> target, result |-> "postcodes"],
              _strip_whitespace(heap["df"], target, "postcodes"))

StepNext ==
    \/ step_aggregate_columns
    \/ step_standardise_addresses
    \/ step_rename_columns
    \/ step_extract_columns
    \/ step_sum_energies
    \/ step_dedupe_column
    \/ step_drop_duplicates
    \/ step_parse_standardised_address
    \/ step_convert_parsed_address_to_dict
    \/ step_reset_index
    \/ step_expand_parsed_address_dict
    \/ step_drop_columns
    \/ step_strip_whitespace

StepSpec == StepInit /\ [][StepNext]_vars

-----------------------------------------------------------------------------
(* One join on its own: the two merge tasks on a pair of frames.            *)

MaxMergeRows == 2

MergeRows ==
    {StepRow("Peamount Hospital, Dublin", "Dublin 1", 2019, 10),
     StepRow("Peamount Hospital, Dublin", "Dublin 1", 2019, 5),
     StepRow("Leinster House, Dublin", "Dublin 2", 2019, 7)}

MergeFrames == Frames(MergeRows, StepColumns, MaxMergeRows)

MergeInit ==
    /\ \E df \in MergeFrames, right \in MergeFrames :
           heap = [o \in StepObjects |->
                      CASE o = "df" -> df [] o = "right" -> right
                        [] OTHER -> NoFrame]
    /\ ref = [o \in StepObjects |-> IF o = "step" THEN "None" ELSE o]
    /\ state = [o \in StepObjects |->
                   IF o = "step" THEN "Pending" ELSE "Success"]
    /\ error = [o \in StepObjects |-> "None"]
    /\ files = [f \in {"m_and_r.parquet"} |-> Missing]
    /\ writes = 0
    /\ call = NoCall

MergeKeys == {<<"address", "Year">>, <<"postcodes">>, <<"i_dont_exist">>}

\* as the flow of m_and_r.py calls it (how="left", indicator=True), and
\* with validate handed through **kwargs
step_merge_mprn_and_gprn ==
    \E on \in MergeKeys,
       kwargs \in {[how |-> "left", indicator |-> TRUE],
                   [how |-> "left", indicator |-> TRUE,
                    validate |-> "one_to_one"],
                   [indicator |-> TRUE]} :
        Apply("_merge_mprn_and_gprn_on_common_addresses",
              [on |-> on, kwargs |-> kwargs],
              _merge_mprn_and_gprn_on_common_addresses(
                  heap["df"], heap["right"], on, kwargs))

\* as the flow of utilities/gni.py calls it (how="outer",
\* validate="one_to_many"), and with the other contracts
step_merge_on_common_postcodes ==
    \E on \in MergeKeys,
       validate \in {"one_to_many", "one_to_one", "many_to_one"},
       kwargs \in {[how |-> "outer"], [how |-> "left"]} :
        Apply("_merge_on_common_postcodes",
              [on |-> on, validate |-> validate, kwargs |-> kwargs],
              _merge_on_common_postcodes(
                  heap["df"], heap["right"], on, validate, kwargs))

MergeNext ==
    \/ step_merge_mprn_and_gprn
    \/ step_merge_on_common_postcodes

MergeSpec == MergeInit /\ [][MergeNext]_vars

-----------------------------------------------------------------------------
(* Properties.                                                              *)

\* the column names a call takes as input
named_columns(c) ==
    (IF "column_names" \in DOMAIN c.args THEN Range(c.args.column_names) ELSE {})
    \cup (IF "on_column" \in DOMAIN c.args THEN {c.args.on_column} ELSE {})
    \cup (IF "mapping" \in DOMAIN c.args
          THEN {c.args.mapping[i][1] : i \in DOMAIN c.args.mapping} ELSE {})
    \cup (IF "on" \in DOMAIN c.args THEN Range(c.args.on) ELSE {})
    \cup (IF "target" \in DOMAIN c.args THEN {c.args.target} ELSE {})

dense(df) == df.index = RangeIndex(len(df))

\* every task the result of t depends on
RECURSIVE ancestors(_)
ancestors(t) ==
    Range(upstream_tasks(t))
    \cup UNION {ancestors(u) : u \in Range(upstream_tasks(t))}

\* C1: a task called with a column name its frame lacks fails with the
\* precondition error (icontract's ViolationError) and leaves the frame as
\* it was.  _strip_whitespace has no @require and raises KeyError.
C1_MissingColumnFailsPrecondition ==
    (/\ state["step"] # "Pending"
     /\ ~(named_columns(call) \subseteq Range(call.before.columns)))
    => /\ state["step"] = "Failed"
       /\ error["step"] = "ViolationError"
       /\ heap["df"] = call.before

\* C2: a sum-by-key call that succeeds keeps the number of rows and has
\* written on every row the sum of target over the rows with that row's key.
C2_SumBroadcastToEveryRow ==
    (/\ call.fn = "_sum_energies_for_multiple_entry_addresses"
     /\ state["step"] = "Success")
    => /\ len(heap[ref["step"]]) = len(call.before)
       /\ \A i \in DOMAIN call.before.data :
              heap[ref["step"]].data[i][call.args.result]
                  = Num(group_sum(call.before, call.args.on,
                                  key(call.before, call.args.on, i),
                                  call.args.target))

\* C3: after fuzzy-group, sum-by-key and drop-duplicates no two rows of a
\* dataset share deduped_address and Year.
C3_OneRowPerAddressIdentityAndYear ==
    \A t \in {"mprn_deduped", "gprn_deduped"} :
        state[t] = "Success"
        => \A i, h \in DOMAIN heap[ref[t]].data :
               (/\ heap[ref[t]].data[i]["deduped_address"]
                       = heap[ref[t]].data[h]["deduped_address"]
                /\ heap[ref[t]].data[i]["Year"] = heap[ref[t]].data[h]["Year"])
               => i = h

\* C4: the join of m_and_r.py as its flow calls it (left, one_to_one
\* declared) and the join of gni.py as its flow calls it (outer,
\* one_to_many) fail with a cardinality violation whenever the keys
\* contradict the declaration, and the latter succeeds otherwise.
C4_JoinEnforcesDeclaredCardinality ==
    /\ (/\ call.fn = "_merge_mprn_and_gprn_on_common_addresses"
        /\ call.args.kwargs = [how |-> "left", indicator |-> TRUE]
        /\ has_columns(call.before, call.args.on)
        /\ ~(/\ unique_keys(call.before, call.args.on)
             /\ unique_keys(heap["right"], call.args.on)))
       => /\ state["step"] = "Failed"
          /\ error["step"] = "MergeError"
    /\ (/\ call.fn = "_merge_on_common_postcodes"
        /\ call.args.kwargs = [how |-> "outer"]
        /\ call.args.validate = "one_to_many"
        /\ has_columns(call.before, call.args.on))
       => IF unique_keys(call.before, call.args.on)
          THEN state["step"] = "Success"
          ELSE state["step"] = "Failed" /\ error["step"] = "MergeError"

\* C5: the expansion task fails, leaving the frame as it was, on every
\* frame whose index is not exactly 0..N-1 in order and on the empty
\* frame, and succeeds on the others (whatever the kind of the error).
C5_ExpandRejectsEveryOtherIndex ==
    (/\ call.fn = "_expand_parsed_address_dict"
     /\ state["step"] # "Pending"
     /\ call.args.target \in Range(call.before.columns))
    => IF dense(call.before) /\ len(call.before) > 0
       THEN state["step"] = "Success"
       ELSE /\ state["step"] = "Failed"
            /\ heap["df"] = call.before

\* C6: a successful expansion keeps the N rows and the columns they had
\* and adds one column per label, holding at each position the fragment of
\* that row's own map, or null.
C6_ExpandAlignsRowsWithTheirOwnMap ==
    (/\ call.fn = "_expand_parsed_address_dict"
     /\ state["step"] = "Success")
    => /\ len(heap[ref["step"]]) = len(call.before)
       /\ \A i \in DOMAIN call.before.data :
              \A c \in Range(call.before.columns) :
                  heap[ref["step"]].data[i][c] = call.before.data[i][c]
       /\ Range(heap[ref["step"]].columns) \ Range(call.before.columns)
              = Range(all_labels(column(call.before, call.args.target)))
       /\ \A i \in DOMAIN call.before.data :
              \A label \in Range(all_labels(column(call.before,
                                                   call.args.target))) :
                  heap[ref["step"]].data[i][label]
                      = dict_get(call.before.data[i][call.args.target].l, label)

\* C7: no task changes the frame it receives, and what it returns is
\* another object.
C7_TaskLeavesItsInputUntouched ==
    state["step"] # "Pending"
    => /\ heap["df"] = call.before
       /\ state["step"] = "Success" => ref["step"] # "df"

C9_DropDuplicatesKeepsFirstOfEachKey ==
    (/\ call.fn = "_drop_duplicates"
     /\ state["step"] = "Success")
    => LET before == call.before
           after == heap[ref["step"]]
           on == call.args.on
           first(k) == CHOOSE i \in DOMAIN before.data :
                           /\ key(before, on, i) = k
                           /\ \A h \in 1..(i - 1) : key(before, on, h) # k
       IN /\ \A i \in DOMAIN before.data :
                 \E r \in DOMAIN after.data :
                     key(after, on, r) = key(before, on, i)
          /\ \A r, q \in DOMAIN after.data :
                 key(after, on, r) = key(after, on, q) => r = q
          /\ \A r \in DOMAIN after.data :
                 /\ \E i \in DOMAIN before.data :
                        key(before, on, i) = key(after, on, r)
                 /\ after.data[r] = before.data[first(key(after, on, r))]
                 /\ after.index[r] = before.index[first(key(after, on, r))]
          /\ \A r, q \in DOMAIN after.data :
                 r < q => first(key(after, on, r)) < first(key(after, on, q))
          /\ after.columns = before.columns

\* duplicates were dropped and more than one row was kept
C9_DuplicatesDropped ==
    /\ call.fn = "_drop_duplicates"
    /\ state["step"] = "Success"
    /\ len(heap[ref["step"]]) >= 2
    /\ len(heap[ref["step"]]) < len(call.before)

InputFiles == {"mprn.parquet", "gprn.parquet", "vo_dublin.parquet"}

ExpandTasks ==
    {"m_and_r_with_parsed_address_expanded", "vo_with_parsed_address_expanded"}

\* C10: when the input files hold rows, each expansion task of the flow
\* whose upstream tasks succeeded receives a frame indexed 0..N-1, and
\* does not fail.
C10_ExpansionReceivesDenseIndex ==
    (\A f \in InputFiles : files[f].exists => len(files[f].df) > 0)
    => \A t \in ExpandTasks :
           state[upstream_tasks(t)[1]] = "Success"
           => /\ dense(Arg(upstream_tasks(t)[1]))
              /\ len(Arg(upstream_tasks(t)[1])) > 0
              /\ state[t] # "Failed"

\* both expansions ran although drop-duplicates left a gap in the
\* electricity index and the valuation-office file had a filtered index
C10_ExpandedAfterGaps ==
    /\ \A t \in ExpandTasks : state[t] = "Success"
    /\ ~dense(heap["mprn_deduped"])
    /\ ~dense(files["vo_dublin.parquet"].df)

====
